---- MODULE Spec2Model ----
(***************************************************************************)
(* KZG polynomial commitments (src/src/kzg_proofs.c): the commitment key   *)
(* lifecycle, commit, single-point and coset (multi) proofs and their      *)
(* verification.                                                           *)
(*                                                                         *)
(* The scalar field Fr is modelled by a small prime field.  G1 and G2 are  *)
(* cyclic groups of order |Fr|; a point is represented by its discrete     *)
(* logarithm with respect to the group generator, so the identity is 0,    *)
(* the generator is 1, scalar multiplication is multiplication in Fr and   *)
(* the pairing e(a.G1, b.G2) is a*b.  C arrays are sequences: the C index  *)
(* i is the sequence index i + 1.                                          *)
(***************************************************************************)
EXTENDS Integers, Sequences, FiniteSets, TLC

\* ------------------------------------------------------------------ bounds

\* Longest polynomial the callers build (coefficient count).
MaxPolyLen == 3

\* Largest integer the callers turn into a coefficient (fr_from_uint64).
MaxCoeff == 1

\* ---------------------------------------------------------- return codes

C_KZG_OK == "C_KZG_OK"
C_KZG_BADARGS == "C_KZG_BADARGS"
C_KZG_ERROR == "C_KZG_ERROR"
C_KZG_MALLOC == "C_KZG_MALLOC"

\* The content of a field element or group point that was never written (a
\* value outside Fr), and of a bool that was never written.
Uninit == 0 - 1

UninitBool == "uninit"

\* A C bool.
Bool(b) == IF b THEN "true" ELSE "false"

\* ------------------------------------------------------------ field (fr_t)

\* Order of the scalar field (a small prime standing for the BLS12-381 one).
FrModulus == 5

Fr == 0..(FrModulus - 1)

fr_zero == 0

fr_one == 1

fr_add(a, b) == (a + b) % FrModulus

fr_sub(a, b) == (a - b + FrModulus) % FrModulus

fr_negate(a) == (FrModulus - a) % FrModulus

fr_mul(a, b) == (a * b) % FrModulus

fr_from_uint64(k) == k % FrModulus

RECURSIVE fr_pow(_, _)
fr_pow(a, k) == IF k = 0 THEN fr_one ELSE fr_mul(a, fr_pow(a, k - 1))

\* Inversion fails on the zero element; the caller passes no way to learn
\* of it, and the output then holds whatever the failing primitive left
\* there (onzero).
fr_inv(a, onzero) == IF a = fr_zero THEN onzero ELSE fr_pow(a, FrModulus - 2)

fr_div(a, b) == fr_mul(a, fr_inv(b, fr_zero))

\* ------------------------------------------------------ groups and pairing

G1 == Fr

G2 == Fr

g1_identity == 0

g1_generator == 1

g2_generator == 1

g1_mul(a, k) == fr_mul(a, k)

g1_add(a, b) == fr_add(a, b)

g1_sub(a, b) == fr_sub(a, b)

g2_mul(a, k) == fr_mul(a, k)

g2_sub(a, b) == fr_sub(a, b)

\* e(a1, a2) == e(b1, b2)
pairings_verify(a1, a2, b1, b2) == fr_mul(a1, a2) = fr_mul(b1, b2)

\* sum over i < len of coeffs[i] * points[i]
RECURSIVE g1_linear_combination(_, _, _)
g1_linear_combination(points, coeffs, len) ==
    IF len = 0 THEN g1_identity
    ELSE g1_add(g1_linear_combination(points, coeffs, len - 1),
                g1_mul(points[len], coeffs[len]))

\* --------------------------------------------------------------- utility

RECURSIVE is_power_of_two(_)
is_power_of_two(k) ==
    IF k = 1 THEN TRUE
    ELSE IF k = 0 \/ k % 2 = 1 THEN FALSE
    ELSE is_power_of_two(k \div 2)

RECURSIVE Pow2(_)
Pow2(k) == IF k = 0 THEN 1 ELSE 2 * Pow2(k - 1)

\* ------------------------------------------------------------ polynomials

\* The coefficients the callers use.
Coeffs == {fr_from_uint64(c) : c \in 0..MaxCoeff}

\* All polynomials (coefficient sequences, lowest degree first) of length len.
PolysOfLen(len) == [1..len -> Coeffs]

\* The polynomial 1 + 2x + 3x^2 + ... of length len.
RampPoly(len) == [i \in 1..len |-> fr_from_uint64(i)]

PolysUpTo(len) == UNION {PolysOfLen(k) : k \in 0..len}

\* Horner evaluation.
RECURSIVE eval_poly_from(_, _, _)
eval_poly_from(p, x, i) ==
    IF i > Len(p) THEN fr_zero
    ELSE fr_add(p[i], fr_mul(x, eval_poly_from(p, x, i + 1)))

eval_poly(p, x) == eval_poly_from(p, x, 1)

poly_quotient_length(dividend, divisor) ==
    IF Len(dividend) >= Len(divisor) THEN Len(dividend) - Len(divisor) + 1 ELSE 0

\* One round of long division: a is the working dividend, diff the (C) index
\* of the quotient coefficient produced in this round.
RECURSIVE poly_long_div(_, _, _, _)
poly_long_div(a, b, diff, q) ==
    LET a_pos == diff + Len(b) - 1
        quot == fr_div(a[a_pos + 1], b[Len(b)])
        a2 == [k \in 1..Len(a) |->
                 IF k - 1 >= diff /\ k - 1 <= a_pos
                 THEN fr_sub(a[k], fr_mul(quot, b[k - diff]))
                 ELSE a[k]]
        q2 == [q EXCEPT ![diff + 1] = quot]
    IN  IF diff = 0 THEN q2 ELSE poly_long_div(a2, b, diff - 1, q2)

\* The quotient of dividend / divisor (the remainder is dropped); the
\* result buffer is allocated here, unless alloc_fails.
new_poly_div(dividend, divisor, alloc_fails) ==
    LET len == poly_quotient_length(dividend, divisor)
    IN  IF Len(divisor) = 0 THEN [ret |-> C_KZG_BADARGS, allocated |-> FALSE, out |-> <<>>]
        ELSE IF alloc_fails THEN [ret |-> C_KZG_MALLOC, allocated |-> FALSE, out |-> <<>>]
        ELSE IF len = 0 THEN [ret |-> C_KZG_OK, allocated |-> TRUE, out |-> <<>>]
        ELSE [ret |-> C_KZG_OK, allocated |-> TRUE,
              out |-> poly_long_div(dividend, divisor, len - 1, [k \in 1..len |-> fr_zero])]

\* --------------------------------------------------------------------- FFT

\* scale2_root_of_unity[k + 1] is a primitive 2^k-th root of unity of Fr.
scale2_root_of_unity == <<1, 4, 2>>

\* The FFT domain of width 2^max_scale.
FFTSettings(max_scale) ==
    [max_width |-> Pow2(max_scale),
     root_of_unity |-> scale2_root_of_unity[max_scale + 1]]

\* expanded_roots_of_unity[i]
expanded_roots_of_unity(fs, i) == fr_pow(fs.root_of_unity, i)

RECURSIVE fft_sum(_, _, _, _)
fft_sum(vals, w, k, j) ==
    IF j = 0 THEN fr_zero
    ELSE fr_add(fft_sum(vals, w, k, j - 1), fr_mul(vals[j], fr_pow(w, (j - 1) * k)))

\* The transform of n values over the domain's n-th roots of unity; the
\* inverse transform uses the inverse root and scales by 1/n.
fft_fr(vals, inverse, n, fs) ==
    IF ~(n <= fs.max_width /\ is_power_of_two(n))
    THEN [ret |-> C_KZG_BADARGS, out |-> <<>>]
    ELSE LET stride == fs.max_width \div n
             w == expanded_roots_of_unity(fs, stride)
             wi == fr_inv(w, fr_zero)
             inv_len == fr_inv(fr_from_uint64(n), fr_zero)
         IN  [ret |-> C_KZG_OK,
              out |-> [k \in 1..n |->
                         IF inverse
                         THEN fr_mul(inv_len, fft_sum(vals, wi, k - 1, n))
                         ELSE fft_sum(vals, w, k - 1, n)]]

\* ----------------------------------------------------------- trusted setup

\* s1[i] = s^i.G1, s2[i] = s^i.G2 for i < len
generate_trusted_setup(s, len) ==
    [s1 |-> [i \in 1..len |-> g1_mul(g1_generator, fr_pow(s, i - 1))],
     s2 |-> [i \in 1..len |-> g2_mul(g2_generator, fr_pow(s, i - 1))]]

\* ---------------------------------------------------------- control flow

\* TRY(call): what the caller returns when the call did not return C_KZG_OK.
TRY(code) == IF code = C_KZG_MALLOC THEN C_KZG_MALLOC ELSE C_KZG_ERROR

\* ------------------------------------------------------------ KZGSettings

\* The KZGSettings object before new_kzg_settings has run on it.  g1_buf and
\* g2_buf are the states of the two owned arrays: "none" (never allocated),
\* "live", "freed", "double_freed".
NoSettings ==
    [length |-> 0, secret_g1 |-> <<>>, secret_g2 |-> <<>>,
     fs |-> [max_width |-> 0, root_of_unity |-> 0],
     g1_buf |-> "none", g2_buf |-> "none"]

\* The key is constructed and not destroyed.
IsLive(k) == k.g1_buf = "live" /\ k.g2_buf = "live" /\ k.fs.max_width > 0

\* ks->secret_g2[i]: a read at i >= length is outside the array and yields
\* whatever lies there (stray).
secret_g2_at(k, i, stray) == IF i < k.length THEN k.secret_g2[i + 1] ELSE stray

\* Mutant: the length is only checked to be positive.
new_kzg_settings_any_length(k, secret_g1, secret_g2, length, f, alloc_fail) ==
    IF ~(length >= 1) THEN [ret |-> C_KZG_BADARGS, ks |-> k, allocs |-> 0]
    ELSE IF alloc_fail = 1
    THEN [ret |-> C_KZG_MALLOC, ks |-> [k EXCEPT !.length = length], allocs |-> 1]
    ELSE IF alloc_fail = 2
    THEN [ret |-> C_KZG_MALLOC,
          ks |-> [k EXCEPT !.length = length, !.g1_buf = "live"], allocs |-> 2]
    ELSE [ret |-> C_KZG_OK,
          ks |-> [length |-> length,
                  secret_g1 |-> SubSeq(secret_g1, 1, length),
                  secret_g2 |-> SubSeq(secret_g2, 1, length),
                  fs |-> f,
                  g1_buf |-> "live", g2_buf |-> "live"],
          allocs |-> 2]

\* alloc_fail: which allocation of the call fails (0: none).  allocs: how
\* many allocations the call asked for.
new_kzg_settings(k, secret_g1, secret_g2, length, f, alloc_fail) ==
    IF ~(length >= f.max_width) THEN [ret |-> C_KZG_BADARGS, ks |-> k, allocs |-> 0]
    ELSE IF alloc_fail = 1
    THEN [ret |-> C_KZG_MALLOC, ks |-> [k EXCEPT !.length = length], allocs |-> 1]
    ELSE IF alloc_fail = 2
    THEN [ret |-> C_KZG_MALLOC,
          ks |-> [k EXCEPT !.length = length, !.g1_buf = "live"], allocs |-> 2]
    ELSE [ret |-> C_KZG_OK,
          ks |-> [length |-> length,
                  secret_g1 |-> SubSeq(secret_g1, 1, length),
                  secret_g2 |-> SubSeq(secret_g2, 1, length),
                  fs |-> f,
                  g1_buf |-> "live", g2_buf |-> "live"],
          allocs |-> 2]

\* free() of a buffer in the given state.
free(buf) == IF buf = "live" THEN "freed" ELSE "double_freed"

free_kzg_settings(k) ==
    [k EXCEPT !.g1_buf = free(k.g1_buf), !.g2_buf = free(k.g2_buf), !.length = 0]

\* ----------------------------------------------------------------- commit

\* Mutant: the output is cleared before the length is checked.
commit_to_poly_clears_first(out, p, k) ==
    IF ~(Len(p) <= k.length) THEN [ret |-> C_KZG_BADARGS, out |-> g1_identity]
    ELSE [ret |-> C_KZG_OK, out |-> g1_linear_combination(k.secret_g1, p, Len(p))]

\* Mutant: the length check is strict.
commit_to_poly_strict(out, p, k) ==
    IF ~(Len(p) < k.length) THEN [ret |-> C_KZG_BADARGS, out |-> out]
    ELSE [ret |-> C_KZG_OK, out |-> g1_linear_combination(k.secret_g1, p, Len(p))]

\* out is the content of *out before the call.
commit_to_poly(out, p, k) ==
    IF ~(Len(p) <= k.length) THEN [ret |-> C_KZG_BADARGS, out |-> out]
    ELSE [ret |-> C_KZG_OK, out |-> g1_linear_combination(k.secret_g1, p, Len(p))]

\* ----------------------------------------------------------------- proofs

\* Mutant: the constant coefficient is x0^n, not its negation.
divisor_not_negated(x0, n) ==
    LET x_pow_n == fr_pow(x0, n)
    IN  [i \in 1..(n + 1) |->
           IF i = 1 THEN x_pow_n
           ELSE IF i = n + 1 THEN fr_one ELSE fr_zero]

\* x^n - x0^n = (x - x0.w^0)(x - x0.w^1)...(x - x0.w^(n-1))
divisor(x0, n) ==
    LET x_pow_n == fr_pow(x0, n)
    IN  [i \in 1..(n + 1) |->
           IF i = 1 THEN fr_negate(x_pow_n)
           ELSE IF i = n + 1 THEN fr_one ELSE fr_zero]

\* compute_proof_multi after its check of n.  live: the transient buffers
\* the call allocated and did not free.
compute_proof_multi_checked(out, p, x0, n, k, alloc_fail) ==
    IF alloc_fail = 1
    THEN [ret |-> C_KZG_MALLOC, out |-> out, live |-> {}, allocs |-> 1]
    ELSE
      LET q == new_poly_div(p, divisor(x0, n), alloc_fail = 2)
          c == commit_to_poly(out, q.out, k)
      IN  IF q.ret # C_KZG_OK
          THEN [ret |-> TRY(q.ret), out |-> out, live |-> {"divisor"}, allocs |-> 2]
          ELSE IF c.ret # C_KZG_OK
          THEN [ret |-> TRY(c.ret), out |-> c.out, live |-> {"divisor", "q"},
                allocs |-> 2]
          ELSE [ret |-> C_KZG_OK, out |-> c.out, live |-> {}, allocs |-> 2]

\* Mutant: n is checked after the divisor has been allocated.
compute_proof_multi_late_check(out, p, x0, n, k, alloc_fail) ==
    IF alloc_fail = 1
    THEN [ret |-> C_KZG_MALLOC, out |-> out, live |-> {}, allocs |-> 1]
    ELSE IF ~is_power_of_two(n)
    THEN [ret |-> C_KZG_BADARGS, out |-> out, live |-> {"divisor"}, allocs |-> 1]
    ELSE compute_proof_multi_checked(out, p, x0, n, k, alloc_fail)

compute_proof_multi(out, p, x0, n, k, alloc_fail) ==
    IF ~is_power_of_two(n)
    THEN [ret |-> C_KZG_BADARGS, out |-> out, live |-> {}, allocs |-> 0]
    ELSE compute_proof_multi_checked(out, p, x0, n, k, alloc_fail)

compute_proof_single(out, p, x0, k, alloc_fail) ==
    compute_proof_multi(out, p, x0, 1, k, alloc_fail)

\* ----------------------------------------------------------- verification

\* Mutant: the first SRS entry (s^0) is used in place of the second (s^1).
check_proof_single_first(out, commitment, proof, x, y, k, stray) ==
    LET x_g2 == g2_mul(g2_generator, x)
        s_minus_x == g2_sub(secret_g2_at(k, 0, stray), x_g2)
        y_g1 == g1_mul(g1_generator, y)
        commitment_minus_y == g1_sub(commitment, y_g1)
    IN  [ret |-> C_KZG_OK,
         out |-> Bool(pairings_verify(commitment_minus_y, g2_generator, proof, s_minus_x)),
         oob |-> ~(1 < k.length)]

\* Mutant: [y]_1 is computed from x, so the claimed value is never looked at.
check_proof_single_wrong_y(out, commitment, proof, x, y, k, stray) ==
    LET x_g2 == g2_mul(g2_generator, x)
        s_minus_x == g2_sub(secret_g2_at(k, 1, stray), x_g2)
        y_g1 == g1_mul(g1_generator, x)
        commitment_minus_y == g1_sub(commitment, y_g1)
    IN  [ret |-> C_KZG_OK,
         out |-> Bool(pairings_verify(commitment_minus_y, g2_generator, proof, s_minus_x)),
         oob |-> ~(1 < k.length)]

check_proof_single(out, commitment, proof, x, y, k, stray) ==
    LET x_g2 == g2_mul(g2_generator, x)
        s_minus_x == g2_sub(secret_g2_at(k, 1, stray), x_g2)
        y_g1 == g1_mul(g1_generator, y)
        commitment_minus_y == g1_sub(commitment, y_g1)
    IN  [ret |-> C_KZG_OK,
         out |-> Bool(pairings_verify(commitment_minus_y, g2_generator, proof, s_minus_x)),
         oob |-> ~(1 < k.length)]

\* Mutant: every coefficient is multiplied by x^-1, the power never advances.
interp_fixed_power(coeffs, inv_x, n) ==
    [i \in 1..n |-> IF i = 1 THEN coeffs[i] ELSE fr_mul(coeffs[i], inv_x)]

\* The coefficients of the polynomial through the values on the coset: the
\* subgroup interpolation with coefficient i multiplied by x^-i.
interp(coeffs, inv_x, n) ==
    [i \in 1..n |-> IF i = 1 THEN coeffs[i] ELSE fr_mul(coeffs[i], fr_pow(inv_x, i - 1))]

\* check_proof_multi after its check of n.  onzero[1], onzero[2]: what the
\* two inversions leave behind on a zero input.
check_proof_multi_checked(out, commitment, proof, x, ys, n, k, alloc_fail, onzero, stray) ==
    IF alloc_fail = 1
    THEN [ret |-> C_KZG_MALLOC, out |-> out, live |-> {}, allocs |-> 1, oob |-> FALSE]
    ELSE
      LET f == fft_fr(ys, TRUE, n, k.fs)
          inv_x == fr_inv(x, onzero[1])
          inv_x_pow == fr_pow(inv_x, n)
          x_pow == fr_inv(inv_x_pow, onzero[2])
          xn2 == g2_mul(g2_generator, x_pow)
          xn_minus_yn == g2_sub(secret_g2_at(k, n, stray), xn2)
          is1 == commit_to_poly(Uninit, interp(f.out, inv_x, n), k)
          commit_minus_interp == g1_sub(commitment, is1.out)
      IN  IF f.ret # C_KZG_OK
          THEN [ret |-> TRY(f.ret), out |-> out, live |-> {"interp"}, allocs |-> 1,
                oob |-> FALSE]
          ELSE IF is1.ret # C_KZG_OK
          THEN [ret |-> TRY(is1.ret), out |-> out, live |-> {"interp"}, allocs |-> 1,
                oob |-> ~(n < k.length)]
          ELSE [ret |-> C_KZG_OK,
                out |-> Bool(pairings_verify(commit_minus_interp, g2_generator,
                                             proof, xn_minus_yn)),
                live |-> {}, allocs |-> 1, oob |-> ~(n < k.length)]

check_proof_multi(out, commitment, proof, x, ys, n, k, alloc_fail, onzero, stray) ==
    IF ~is_power_of_two(n)
    THEN [ret |-> C_KZG_BADARGS, out |-> out, live |-> {}, allocs |-> 0, oob |-> FALSE]
    ELSE check_proof_multi_checked(out, commitment, proof, x, ys, n, k, alloc_fail,
                                   onzero, stray)

\* ------------------------------------------------------------------ state

VARIABLES
    fs,           \* the caller's FFTSettings (immutable after construction)
    secret,       \* the scalar s behind the caller's trusted setup
    secrets_len,  \* length of the caller's setup arrays s1, s2
    p,            \* the caller's polynomial
    x,            \* the point (single) or coset generator (multi)
    n,            \* the coset size the caller uses for the multi operations
    ks,           \* the KZGSettings object
    commitment,   \* g1_t commitment
    proof,        \* g1_t proof
    opened,       \* coset size proof was computed for (0: no proof yet)
    ys,           \* the claimed values; ys[1] is the single-point value
    result,       \* bool written by check_proof_single
    result_multi, \* bool written by check_proof_multi
    op,           \* the last operation that ran
    ret,          \* its return code
    live,         \* transient buffers the last call allocated and left allocated
    allocs,       \* number of allocations the last call asked for
    oob           \* the last call read the SRS outside its bounds

vars == <<fs, secret, secrets_len, p, x, n, ks, commitment, proof, opened, ys,
          result, result_multi, op, ret, live, allocs, oob>>

inputs == <<fs, secret, secrets_len, p, x, n>>

\* The scalars the trusted setups are generated from.
Secrets == {s \in Fr : fr_mul(s, s) \notin {fr_zero, fr_one}}

\* The scales an FFT domain can be built for.
Scales == 0..(Len(scale2_root_of_unity) - 1)

\* The coset sizes callers pass: every size up to the widest domain.
CosetSizes == 0..Pow2(Len(scale2_root_of_unity) - 1)

\* The n-th root of unity of the domain f.
root_of_order(f, cn) == expanded_roots_of_unity(f, f.max_width \div cn)

\* ys[i] = p(x * w^i), as the tests compute them.
HonestYs(poly, x0, cn, f) ==
    [i \in 1..cn |-> eval_poly(poly, fr_mul(x0, fr_pow(root_of_order(f, cn), i - 1)))]

\* The state after the caller's declarations: inputs drawn from the given
\* sets, nothing constructed and no output written.
InitOver(scales, lens, polys, points, sizes) ==
    /\ fs \in {FFTSettings(k) : k \in scales}
    /\ secret \in Secrets
    /\ secrets_len \in lens
    /\ p \in polys
    /\ x \in points
    /\ n \in sizes
    /\ ks = NoSettings
    /\ commitment = Uninit
    /\ proof = Uninit
    /\ opened = 0
    /\ ys = [i \in 1..n |-> Uninit]
    /\ result = UninitBool
    /\ result_multi = UninitBool
    /\ op = "init"
    /\ ret = C_KZG_OK
    /\ live = {}
    /\ allocs = 0
    /\ oob = FALSE

\* ----------------------------------------------------------------- actions
\* The callers follow the order of the tests: construct the key, commit,
\* open, evaluate, verify, change a value, verify again (no verification is
\* repeated on the spot); the key may be destroyed at any point.

NewKzgSettings ==
    /\ ks.g1_buf = "none"
    /\ \E alloc_fail \in 0..2 :
         LET setup == generate_trusted_setup(secret, secrets_len)
             r == new_kzg_settings(ks, setup.s1, setup.s2, secrets_len, fs, alloc_fail)
         IN  /\ ks' = r.ks
             /\ ret' = r.ret
             /\ allocs' = r.allocs
    /\ op' = "new_kzg_settings"
    /\ live' = {}
    /\ oob' = FALSE
    /\ UNCHANGED <<inputs, commitment, proof, opened, ys, result, result_multi>>

FreeKzgSettings ==
    /\ ks.g1_buf \in {"live", "freed"}
    /\ ks.g2_buf \in {"live", "freed"}
    /\ ks' = free_kzg_settings(ks)
    /\ op' = "free_kzg_settings"
    /\ live' = {}
    /\ allocs' = 0
    /\ oob' = FALSE
    /\ UNCHANGED <<inputs, commitment, proof, opened, ys, result, result_multi, ret>>

CommitToPoly ==
    /\ IsLive(ks)
    /\ commitment = Uninit /\ proof = Uninit
    /\ LET r == commit_to_poly(commitment, p, ks)
       IN  /\ commitment' = r.out
           /\ ret' = r.ret
    /\ op' = "commit_to_poly"
    /\ live' = {}
    /\ allocs' = 0
    /\ oob' = FALSE
    /\ UNCHANGED <<inputs, ks, proof, opened, ys, result, result_multi>>

ComputeProofSingle ==
    /\ IsLive(ks)
    /\ proof = Uninit
    /\ \E alloc_fail \in 0..2 :
         LET r == compute_proof_single(proof, p, x, ks, alloc_fail)
         IN  /\ proof' = r.out
             /\ ret' = r.ret
             /\ live' = r.live
             /\ allocs' = r.allocs
             /\ opened' = IF r.ret = C_KZG_OK THEN 1 ELSE opened
    /\ op' = "compute_proof_single"
    /\ oob' = FALSE
    /\ UNCHANGED <<inputs, ks, commitment, ys, result, result_multi>>

ComputeProofMulti ==
    /\ IsLive(ks)
    /\ proof = Uninit
    /\ \E alloc_fail \in 0..2 :
         LET r == compute_proof_multi(proof, p, x, n, ks, alloc_fail)
         IN  /\ proof' = r.out
             /\ ret' = r.ret
             /\ live' = r.live
             /\ allocs' = r.allocs
             /\ opened' = IF r.ret = C_KZG_OK THEN n ELSE opened
    /\ op' = "compute_proof_multi"
    /\ oob' = FALSE
    /\ UNCHANGED <<inputs, ks, commitment, ys, result, result_multi>>

\* The caller evaluates the polynomial on the coset (eval_poly in the tests).
EvalPoly ==
    /\ IsLive(ks)
    /\ commitment # Uninit /\ proof # Uninit
    /\ n >= 1 /\ is_power_of_two(n) /\ n <= ks.fs.max_width
    /\ ys[1] = Uninit
    /\ ys' = HonestYs(p, x, n, ks.fs)
    /\ op' = "eval_poly"
    /\ live' = {}
    /\ allocs' = 0
    /\ oob' = FALSE
    /\ UNCHANGED <<inputs, ks, commitment, proof, opened, result, result_multi, ret>>

\* The caller changes one value after a verification (fr_add in the tests).
ChangeValue ==
    /\ IsLive(ks)
    /\ op \in {"check_proof_single", "check_proof_multi"}
    /\ n >= 1 /\ is_power_of_two(n) /\ n <= ks.fs.max_width
    /\ ys = HonestYs(p, x, n, ks.fs)
    /\ \E i \in 1..n, d \in Fr \ {fr_zero} :
         ys' = [ys EXCEPT ![i] = fr_add(ys[i], d)]
    /\ op' = "fr_add"
    /\ live' = {}
    /\ allocs' = 0
    /\ oob' = FALSE
    /\ UNCHANGED <<inputs, ks, commitment, proof, opened, result, result_multi, ret>>

CheckProofSingle ==
    /\ IsLive(ks)
    /\ op # "check_proof_single"
    /\ commitment # Uninit /\ proof # Uninit
    /\ n >= 1 /\ ys[1] # Uninit
    /\ \E stray \in (IF 1 < ks.length THEN {g1_identity} ELSE G2) :
         LET r == check_proof_single(result, commitment, proof, x, ys[1], ks, stray)
         IN  /\ result' = r.out
             /\ ret' = r.ret
             /\ oob' = r.oob
    /\ op' = "check_proof_single"
    /\ live' = {}
    /\ allocs' = 0
    /\ UNCHANGED <<inputs, ks, commitment, proof, opened, ys, result_multi>>

CheckProofMulti ==
    /\ IsLive(ks)
    /\ op # "check_proof_multi"
    /\ commitment # Uninit /\ proof # Uninit
    /\ \/ ~is_power_of_two(n)
       \/ n > ks.fs.max_width
       \/ \A i \in 1..n : ys[i] # Uninit
    /\ \E alloc_fail \in 0..1,
          onzero \in (IF x = fr_zero THEN Fr \X Fr ELSE {<<fr_zero, fr_zero>>}),
          stray \in (IF n < ks.length THEN {g1_identity} ELSE G2) :
         LET r == check_proof_multi(result_multi, commitment, proof, x, ys, n, ks,
                                    alloc_fail, onzero, stray)
         IN  /\ result_multi' = r.out
             /\ ret' = r.ret
             /\ live' = r.live
             /\ allocs' = r.allocs
             /\ oob' = r.oob
    /\ op' = "check_proof_multi"
    /\ UNCHANGED <<inputs, ks, commitment, proof, opened, ys, result>>

\* --------------------------------------------------------- specifications

\* The whole interface, on one polynomial of every length.
Init ==
    InitOver(Scales, 1..(MaxPolyLen + 1), {RampPoly(k) : k \in 0..MaxPolyLen},
             {fr_from_uint64(2)}, CosetSizes)

Next ==
    \/ NewKzgSettings
    \/ FreeKzgSettings
    \/ CommitToPoly
    \/ ComputeProofSingle
    \/ ComputeProofMulti
    \/ EvalPoly
    \/ ChangeValue
    \/ CheckProofSingle
    \/ CheckProofMulti

Spec == Init /\ [][Next]_vars

\* The single-point protocol (the test proof_single) on every polynomial.
InitSingle ==
    InitOver({0, 1}, 1..(MaxPolyLen + 1), PolysUpTo(MaxPolyLen), Fr, {1})

NextSingle ==
    \/ NewKzgSettings
    \/ CommitToPoly
    \/ ComputeProofSingle
    \/ EvalPoly
    \/ ChangeValue
    \/ CheckProofSingle

SpecSingle == InitSingle /\ [][NextSingle]_vars

\* The coset protocol (the test proof_multi) on every polynomial, with a
\* setup one longer than the longest polynomial, as in the tests.
InitMulti ==
    InitOver(Scales, {MaxPolyLen + 1}, PolysUpTo(MaxPolyLen), Fr \ {fr_zero},
             {k \in CosetSizes : is_power_of_two(k)})

NextMulti ==
    \/ NewKzgSettings
    \/ CommitToPoly
    \/ ComputeProofMulti
    \/ EvalPoly
    \/ ChangeValue
    \/ CheckProofMulti

SpecMulti == InitMulti /\ [][NextMulti]_vars

\* A verifier handed an arbitrary commitment, proof, point and value, who
\* runs both predicates on them with n = 1.
InitEquiv ==
    /\ fs \in {FFTSettings(k) : k \in {0, 1}}
    /\ secret \in Secrets
    /\ secrets_len \in 1..2
    /\ p = <<>>
    /\ x \in Fr
    /\ n = 1
    /\ ks = NoSettings
    /\ commitment \in G1
    /\ proof \in G1
    /\ opened = 0
    /\ ys \in [1..1 -> Fr]
    /\ result = UninitBool
    /\ result_multi = UninitBool
    /\ op = "init"
    /\ ret = C_KZG_OK
    /\ live = {}
    /\ allocs = 0
    /\ oob = FALSE

NextEquiv ==
    \/ NewKzgSettings
    \/ CheckProofSingle
    \/ CheckProofMulti

SpecEquiv == InitEquiv /\ [][NextEquiv]_vars

\* ------------------------------------------------------------- properties

\* C1 (single-point completeness): whenever check_proof_single has just run
\* on the commitment to p, the proof compute_proof_single made for p at x
\* and the value p(x), it returned C_KZG_OK and wrote true.
C1_SingleCompleteness ==
    (/\ op = "check_proof_single"
     /\ commitment # Uninit /\ opened = 1
     /\ ys[1] = eval_poly(p, x))
    => (ret = C_KZG_OK /\ result = "true")

\* A verification of a true claim about a polynomial of full length whose
\* proof is not the identity.
C1_Witness ==
    /\ op = "check_proof_single"
    /\ opened = 1
    /\ Len(p) = MaxPolyLen
    /\ proof \notin {Uninit, g1_identity}
    /\ ys[1] = eval_poly(p, x)
    /\ result = "true"

\* C2 (single-point soundness against a changed value): whenever
\* check_proof_single has just run on the honest commitment and proof and a
\* value p(x) + d with d # 0, it returned C_KZG_OK and wrote false.
C2_SingleChangedValue ==
    (/\ op = "check_proof_single"
     /\ commitment # Uninit /\ opened = 1
     /\ ys[1] # eval_poly(p, x))
    => (ret = C_KZG_OK /\ result = "false")

\* A verification of a changed value of a polynomial of full length.
C2_Witness ==
    /\ op = "check_proof_single"
    /\ opened = 1
    /\ Len(p) = MaxPolyLen
    /\ proof \notin {Uninit, g1_identity}
    /\ ys[1] = fr_add(eval_poly(p, x), fr_one)
    /\ result = "false"

\* sum over i >= from of coeffs[i] * points[i]
RECURSIVE WeightedSum(_, _, _)
WeightedSum(coeffs, points, from) ==
    IF from > Len(coeffs) THEN g1_identity
    ELSE g1_add(g1_mul(points[from], coeffs[from]), WeightedSum(coeffs, points, from + 1))

\* C7 (commit): commit_to_poly on a polynomial no longer than the key returns
\* C_KZG_OK, and the commitment it wrote is the sum of coeff[i] * secret_g1[i];
\* for the zero-length polynomial that is the identity of G1.
C7_CommitIsWeightedSum ==
    /\ (op = "commit_to_poly" /\ Len(p) <= ks.length)
       => (/\ ret = C_KZG_OK
           /\ commitment = WeightedSum(p, ks.secret_g1, 1)
           /\ (Len(p) = 0 => commitment = g1_identity))
    /\ (IsLive(ks) /\ commitment # Uninit)
       => commitment = WeightedSum(p, ks.secret_g1, 1)

\* A commitment to a polynomial as long as the key that is not the identity.
C7_Witness ==
    /\ op = "commit_to_poly"
    /\ ret = C_KZG_OK
    /\ Len(p) = ks.length
    /\ Len(p) > 1
    /\ commitment \notin {Uninit, g1_identity}

\* The points of the coset x * <w>, w the n-th root of unity of the key's
\* domain, in the order of ys.
CosetPoint(i) == fr_mul(x, fr_pow(root_of_order(ks.fs, n), i - 1))

\* The caller ran commit_to_poly and compute_proof_multi on p, x, n with
\* success, and n is a coset size the key's domain has.
MultiOpened ==
    /\ IsLive(ks)
    /\ commitment # Uninit /\ proof # Uninit /\ opened = n
    /\ n >= 1 /\ is_power_of_two(n) /\ n <= ks.fs.max_width

\* The indices at which ys differs from the values of p on the coset.
ChangedAt == {i \in 1..n : ys[i] # eval_poly(p, CosetPoint(i))}

SecretOnCosetOff(i) == \E j \in (1..n) \ {i} : secret = CosetPoint(j)

C5_SingleBatchEquivalence ==
    (/\ IsLive(ks) /\ n = 1
     /\ result # UninitBool /\ result_multi # UninitBool)
    => result = result_multi

\* C6 (oversized commit): every call of commit_to_poly on a polynomial with
\* more coefficients than the key has entries returns C_KZG_BADARGS and
\* leaves the caller's commitment as it was before the call.
C6_CommitTooLong ==
    [][(op' = "commit_to_poly" /\ Len(p) > ks.length)
       => (ret' = C_KZG_BADARGS /\ commitment' = commitment)]_vars

\* A rejected commit of a polynomial one longer than the key.
C6_Witness ==
    /\ op = "commit_to_poly"
    /\ IsLive(ks)
    /\ Len(p) = ks.length + 1
    /\ ret = C_KZG_BADARGS
    /\ commitment = Uninit

\* C8 (transient buffers): after compute_proof_single, compute_proof_multi
\* or check_proof_multi has returned, with whatever code, none of the
\* polynomials the call allocated (divisor, q, interp) is still allocated.
C8_NoTransientLeft ==
    op \in {"compute_proof_single", "compute_proof_multi", "check_proof_multi"}
    => live = {}

\* C9 (coset size not a power of two): every call of compute_proof_multi or
\* check_proof_multi with such an n returns C_KZG_BADARGS, has allocated
\* nothing, and has written neither the proof nor the boolean.
C9_NotPowerOfTwo ==
    [][(/\ ~is_power_of_two(n)
        /\ op' \in {"compute_proof_multi", "check_proof_multi"})
       => (/\ ret' = C_KZG_BADARGS
           /\ allocs' = 0 /\ live' = {}
           /\ proof' = proof
           /\ result_multi' = result_multi)]_vars

\* A verification over three values, rejected before anything was written.
C9_Witness ==
    /\ op = "check_proof_multi"
    /\ n = 3
    /\ Len(ys) = 3
    /\ commitment # Uninit /\ proof # Uninit
    /\ ret = C_KZG_BADARGS
    /\ allocs = 0
    /\ result_multi = UninitBool

\* C10 (key length): new_kzg_settings with length < max_width returns
\* C_KZG_BADARGS and has allocated nothing; a constructed key has
\* length >= max_width of its domain; and no operation on a constructed
\* key other than its destruction changes its length.
C10_KeyLength ==
    /\ [](/\ (op = "new_kzg_settings" /\ secrets_len < fs.max_width)
             => (/\ ret = C_KZG_BADARGS /\ allocs = 0
                 /\ ks.g1_buf = "none" /\ ks.g2_buf = "none")
          /\ IsLive(ks) => ks.length >= ks.fs.max_width)
    /\ [][(IsLive(ks) /\ op' # "free_kzg_settings")
          => (IsLive(ks') /\ ks'.length = ks.length)]_vars

\* A construction refused because the setup is one entry short of the
\* widest domain.
C10_Witness ==
    /\ op = "new_kzg_settings"
    /\ fs.max_width = Pow2(Len(scale2_root_of_unity) - 1)
    /\ secrets_len = fs.max_width - 1
    /\ ret = C_KZG_BADARGS
    /\ ~IsLive(ks)

\* C11 (destroy): in construct, destroy, destroy, ... on one key each of the
\* two owned arrays is released exactly once: a destroy of a destroyed key
\* (length 0) releases nothing again, and the key's domain is the caller's
\* FFTSettings, untouched, after every destroy.
C11_DestroyIdempotent ==
    /\ ks.g1_buf # "double_freed"
    /\ ks.g2_buf # "double_freed"
    /\ op = "free_kzg_settings"
       => (ks.length = 0 /\ ks.g1_buf = "freed" /\ ks.g2_buf = "freed" /\ ks.fs = fs)

\* C12 (SRS reads in bounds): on a constructed key, check_proof_single, and
\* check_proof_multi with n a power of two and n <= max_width of the key's
\* domain, read secret_g2 only at an index below the key's length.
C12_ReadsInBounds ==
    (/\ IsLive(ks)
     /\ \/ op = "check_proof_single"
        \/ op = "check_proof_multi" /\ is_power_of_two(n) /\ n <= ks.fs.max_width)
    => ~oob

====
